---- MODULE Spec2Model ----
(***************************************************************************)
(* Calendar API: users, events, the event CRUD endpoints and the day /     *)
(* week / month / year report endpoints, with the date-range helper.       *)
(*                                                                         *)
(* Text (date strings, e-mail addresses) is a sequence of one-character    *)
(* strings, so that parsing and formatting are computed, not assumed.      *)
(* A datetime.date is a record [year, month, day]; arithmetic on dates     *)
(* goes through proleptic Gregorian ordinals as in CPython's datetime.     *)
(***************************************************************************)
EXTENDS Integers, Sequences, FiniteSets, TLC

VARIABLES
    users,         \* the rows of the user table
    events,        \* the rows of the event table
    next_pkid,     \* the next value of Event.pkid (BigAutoField)
    next_user_pk,  \* the next primary key of the user table
    req,           \* the operation in flight or last performed, with its inputs
    response,      \* what it returned, or Pending while it is in flight
    now,           \* the server's date that operation read, if it read one
    queried        \* whether it read or wrote the event table

vars == <<users, events, next_pkid, next_user_pk, req, response, now, queried>>

None == [none |-> TRUE]

Exc(name) == [exc |-> name]

IsExc(v) == "exc" \in DOMAIN v

(***************************************************************************)
(* datetime.date                                                           *)
(***************************************************************************)
Date(y, m, d) == [year |-> y, month |-> m, day |-> d]

date_min == Date(1, 1, 1)

date_max == Date(9999, 12, 31)

\* calendar.isleap / datetime._is_leap
isleap(year) == year % 4 = 0 /\ (year % 100 # 0 \/ year % 400 = 0)

\* calendar.mdays / datetime._DAYS_IN_MONTH
mdays == <<31, 28, 31, 30, 31, 30, 31, 31, 30, 31, 30, 31>>

\* second component of calendar.monthrange(year, month)
monthrange(year, month) == mdays[month] + (IF month = 2 /\ isleap(year) THEN 1 ELSE 0)

\* datetime._DAYS_BEFORE_MONTH
days_before_month_tbl == <<0, 31, 59, 90, 120, 151, 181, 212, 243, 273, 304, 334>>

days_before_year(year) ==
    LET y == year - 1 IN y * 365 + (y \div 4) - (y \div 100) + (y \div 400)

days_before_month(year, month) ==
    days_before_month_tbl[month] + (IF month > 2 /\ isleap(year) THEN 1 ELSE 0)

\* date.toordinal(): 0001-01-01 is day 1
toordinal(dt) == days_before_year(dt.year) + days_before_month(dt.year, dt.month) + dt.day

\* date.fromordinal(n), CPython's _ord2ymd
fromordinal(n) ==
    LET n0 == n - 1
        n400 == n0 \div 146097
        r400 == n0 % 146097
        n100 == r400 \div 36524
        r100 == r400 % 36524
        n4 == r100 \div 1461
        r4 == r100 % 1461
        n1 == r4 \div 365
        r1 == r4 % 365
        year == n400 * 400 + 1 + n100 * 100 + n4 * 4 + n1
        leapyear == n1 = 3 /\ (n4 # 24 \/ n100 = 3)
        m0 == (r1 + 50) \div 32
        p0 == days_before_month_tbl[m0] + (IF m0 > 2 /\ leapyear THEN 1 ELSE 0)
        month == IF p0 > r1 THEN m0 - 1 ELSE m0
        preceding == IF p0 > r1
                     THEN p0 - (mdays[month] + (IF month = 2 /\ leapyear THEN 1 ELSE 0))
                     ELSE p0
    IN  IF n1 = 4 \/ n100 = 4
        THEN Date(year - 1, 12, 31)
        ELSE Date(year, month, r1 - preceding + 1)

\* date.weekday(): Monday is 0, Sunday is 6
weekday(dt) == (toordinal(dt) + 6) % 7

\* date + timedelta(days): OverflowError outside [date.min, date.max]
date_add(dt, days) ==
    LET o == toordinal(dt) + days
    IN  IF o < toordinal(date_min) \/ o > toordinal(date_max)
        THEN Exc("OverflowError")
        ELSE fromordinal(o)

\* date.replace(day=d)
replace_day(dt, d) == Date(dt.year, dt.month, d)

(***************************************************************************)
(* Text                                                                    *)
(***************************************************************************)
Digits == <<"0", "1", "2", "3", "4", "5", "6", "7", "8", "9">>

IsDigit(c) == \E i \in 1..10 : Digits[i] = c

DigitVal(c) == (CHOOSE i \in 1..10 : Digits[i] = c) - 1

DigitChar(n) == Digits[n + 1]

\* "%02d"
Fmt02(n) == <<DigitChar((n \div 10) % 10), DigitChar(n % 10)>>

\* "%04d"
Fmt04(n) == <<DigitChar((n \div 1000) % 10), DigitChar((n \div 100) % 10)>> \o Fmt02(n % 100)

\* "%d"
FmtD(n) == IF n < 10 THEN <<DigitChar(n)>> ELSE Fmt02(n)

\* str(date) = date.isoformat(): "%04d-%02d-%02d"
isoformat(dt) == Fmt04(dt.year) \o <<"-">> \o Fmt02(dt.month) \o <<"-">> \o Fmt02(dt.day)

\* the value of a run of digits
RECURSIVE NumVal(_)
NumVal(s) == IF s = <<>> THEN 0 ELSE NumVal(SubSeq(s, 1, Len(s) - 1)) * 10 + DigitVal(s[Len(s)])

\* %m of _strptime: 1[0-2]|0[1-9]|[1-9]
MatchMonth(s) ==
    \/ Len(s) = 2 /\ s[1] = "1" /\ s[2] \in {"0", "1", "2"}
    \/ Len(s) = 2 /\ s[1] = "0" /\ IsDigit(s[2]) /\ s[2] # "0"
    \/ Len(s) = 1 /\ IsDigit(s[1]) /\ s[1] # "0"

\* %d of _strptime: 3[01]|[12]\d|0[1-9]|[1-9]| [1-9]
MatchDay(s) ==
    \/ Len(s) = 2 /\ s[1] = "3" /\ s[2] \in {"0", "1"}
    \/ Len(s) = 2 /\ s[1] \in {"1", "2"} /\ IsDigit(s[2])
    \/ Len(s) = 2 /\ s[1] \in {"0", " "} /\ IsDigit(s[2]) /\ s[2] # "0"
    \/ Len(s) = 1 /\ IsDigit(s[1]) /\ s[1] # "0"

DayVal(s) == IF s[1] = " " THEN DigitVal(s[2]) ELSE NumVal(s)

\* datetime.strptime(s, "%Y-%m-%d").date(): the whole text must match
\* \d\d\d\d-%m-%d and name a date that exists, else ValueError
strptime(s) ==
    IF ~(Len(s) >= 8 /\ (\A i \in 1..4 : IsDigit(s[i])) /\ s[5] = "-")
    THEN Exc("ValueError")
    ELSE LET seps == {i \in 6..Len(s) : s[i] = "-"} IN
         IF seps = {}
         THEN Exc("ValueError")
         ELSE LET j == CHOOSE i \in seps : \A k \in seps : i <= k
                  mp == SubSeq(s, 6, j - 1)
                  dp == SubSeq(s, j + 1, Len(s))
              IN  IF ~(MatchMonth(mp) /\ MatchDay(dp))
                  THEN Exc("ValueError")
                  ELSE LET y == NumVal(SubSeq(s, 1, 4))
                           m == NumVal(mp)
                           d == DayVal(dp)
                       IN  IF y < 1 \/ d > monthrange(y, m)
                           THEN Exc("ValueError")
                           ELSE Date(y, m, d)

(***************************************************************************)
(* DateRangeHelper: the pair [start, end] of dates, or the exception raised *)
(***************************************************************************)
\* an exception raised while v was computed propagates; otherwise F(v)
Then(v, F(_)) == IF IsExc(v) THEN v ELSE F(v)

get_start_and_end_of_week_isoweekday(date_str) ==
    Then(strptime(date_str), LAMBDA given_date :
    Then(date_add(given_date, 0 - (weekday(given_date) + 1)), LAMBDA start_of_week :
    Then(date_add(start_of_week, 6), LAMBDA end_of_week :
    [start |-> start_of_week, end |-> end_of_week])))

get_start_and_end_of_week(date_str) ==
    Then(strptime(date_str), LAMBDA given_date :
    Then(date_add(given_date, 0 - weekday(given_date)), LAMBDA start_of_week :
    Then(date_add(start_of_week, 6), LAMBDA end_of_week :
    [start |-> start_of_week, end |-> end_of_week])))

get_first_and_last_day_of_month_no_leap(date_str) ==
    Then(strptime(date_str), LAMBDA given_date :
    [start |-> replace_day(given_date, 1),
     end |-> replace_day(given_date, mdays[given_date.month])])

get_first_and_last_day_of_month(date_str) ==
    Then(strptime(date_str), LAMBDA given_date :
    [start |-> replace_day(given_date, 1),
     end |-> replace_day(given_date, monthrange(given_date.year, given_date.month))])

get_first_and_last_day_of_year(date_str) ==
    Then(strptime(date_str), LAMBDA given_date :
    [start |-> Date(given_date.year, 1, 1), end |-> Date(given_date.year, 12, 31)])

(***************************************************************************)
(* Bounds and request inputs                                               *)
(***************************************************************************)
MaxUsers == 2

MaxEvents == 2

\* CharField(max_length=50)
name_max_length == 50

Some(v) == [some |-> v]

IsNone(v) == "none" \in DOMAIN v

Dash == <<"-">>

\* "%d-%d-%d" with the year in four digits: a date text without zero padding
unpadded(dt) == Fmt04(dt.year) \o Dash \o FmtD(dt.month) \o Dash \o FmtD(dt.day)

NotADate == <<"n", "o", "t", "-", "a", "-", "d", "a", "t", "e">>

\* 2023 is not a leap year
Feb29Text == <<"2", "0", "2", "3", "-", "0", "2", "-", "2", "9">>

\* the ?date= query parameter: absent, empty, or a text
DateParams ==
    { None, Some(<<>>), Some(NotADate), Some(Feb29Text),
      Some(isoformat(Date(2024, 2, 28))), Some(unpadded(Date(2024, 3, 1))),
      Some(isoformat(date_max)) }

\* timezone.now().date() at the time of a request
Todays == {Date(2024, 2, 28), Date(2024, 3, 4)}

LongName == [i \in 1..(name_max_length + 1) |-> "x"]

\* request bodies of POST / PUT / PATCH; a field may be missing, and the
\* client may send fields the serializer does not accept
Bodies ==
    { [name |-> <<"a">>, description |-> <<"d">>, date |-> isoformat(Date(2024, 2, 28)),
       start_event |-> 9, end_event |-> 10],
      [name |-> <<"b">>, description |-> <<"d">>, date |-> unpadded(Date(2024, 3, 1)),
       start_event |-> 10, end_event |-> 9, creator |-> 1, first_name |-> <<"E">>, id |-> 2],
      [name |-> LongName, description |-> <<"d">>, date |-> NotADate,
       start_event |-> 9, end_event |-> 10],
      [name |-> <<"c">>] }

(***************************************************************************)
(* User (core_apps/users/models.py)                                        *)
(***************************************************************************)
Lower(c) == CASE c = "X" -> "x" [] c = "Y" -> "y" [] OTHER -> c

\* BaseUserManager.normalize_email: lowercase the part after the last "@"
normalize_email(email) ==
    LET ats == {i \in 1..Len(email) : email[i] = "@"} IN
    IF ats = {} THEN email
    ELSE LET k == CHOOSE i \in ats : \A j \in ats : j <= i
         IN  [i \in 1..Len(email) |-> IF i > k THEN Lower(email[i]) ELSE email[i]]

\* AbstractBaseUser.set_password: the stored value is a hash of the raw
\* password, or an unusable marker for None
make_password(password) ==
    IF IsNone(password) THEN [unusable |-> TRUE] ELSE [hash_of |-> password.some]

Field(extra_fields, f, default) == IF f \in DOMAIN extra_fields THEN extra_fields[f] ELSE default

\* a row of the user table: self.model(email=..., **extra_fields) followed
\* by set_password; the model has name, not first_name
User(pk, email, password, extra_fields) ==
    [pk |-> pk, email |-> email, password |-> make_password(password),
     name |-> Field(extra_fields, "name", <<>>),
     is_active |-> Field(extra_fields, "is_active", TRUE),
     is_staff |-> Field(extra_fields, "is_staff", FALSE)]

\* create_user without its `if not email` guard: normalize_email turns a
\* missing e-mail into the empty text and the row is saved
create_user_unchecked(email, password, extra_fields) ==
    LET text == IF IsNone(email) THEN <<>> ELSE email.some
        user == User(next_user_pk, normalize_email(text), password, extra_fields)
    IN  IF \E u \in users : u.email = user.email
        THEN Exc("IntegrityError")
        ELSE [users |-> users \cup {user}]

\* UserManager.create_user: the user table after the call, or the exception.
\* email is None or Some(text); the e-mail column is unique.
create_user(email, password, extra_fields) ==
    IF IsNone(email) \/ email.some = <<>> THEN Exc("ValueError")
    ELSE LET user == User(next_user_pk, normalize_email(email.some), password, extra_fields) IN
         IF \E u \in users : u.email = user.email
         THEN Exc("IntegrityError")
         ELSE [users |-> users \cup {user}]

CreateUserCalls ==
    { [email |-> Some(<<>>), password |-> Some(<<"p">>), extra_fields |-> [name |-> <<"N">>]],
      [email |-> None, password |-> Some(<<"p">>), extra_fields |-> [name |-> <<"N">>]],
      [email |-> Some(<<"a", "@", "X">>), password |-> Some(<<"p">>),
       extra_fields |-> [name |-> <<"A">>]],
      [email |-> Some(<<"B", "@", "y">>), password |-> None,
       extra_fields |-> [is_staff |-> FALSE]] }

(***************************************************************************)
(* Authentication and permissions                                          *)
(***************************************************************************)
AnonymousUser == [pk |-> 0, is_authenticated |-> FALSE]

\* TokenAuthentication: a credential names a user row by its key; a request
\* without a credential, or one naming no active user, is anonymous
authenticate(credential) ==
    IF \E u \in users : u.pk = credential /\ u.is_active
    THEN [pk |-> credential, is_authenticated |-> TRUE]
    ELSE AnonymousUser

\* permissions.IsAuthenticated / IsCreatorOrReadOnly.has_permission
has_permission(user) == user.is_authenticated

has_object_permission(user, obj) == obj.creator = user.pk

Response(status, data) == [status |-> status, data |-> data]

NotAuthenticated == Response(401, [detail |-> "Authentication credentials were not provided."])

NotFound == Response(404, [detail |-> "Not found."])

PermissionDenied == Response(403, [detail |-> "You do not have permission to perform this action."])

ServerError == Response(500, [detail |-> "Server Error (500)"])

(***************************************************************************)
(* EventSerializer                                                         *)
(***************************************************************************)
WritableFields == {"name", "description", "date", "start_event", "end_event"}

\* django.utils.dateparse.parse_date as DateField uses it:
\* \d{4}-\d{1,2}-\d{1,2} naming a date that exists
parse_date(s) ==
    IF ~(Len(s) >= 8 /\ (\A i \in 1..4 : IsDigit(s[i])) /\ s[5] = "-")
    THEN Exc("ValueError")
    ELSE LET seps == {i \in 6..Len(s) : s[i] = "-"} IN
         IF seps = {}
         THEN Exc("ValueError")
         ELSE LET j == CHOOSE i \in seps : \A k \in seps : i <= k
                  mp == SubSeq(s, 6, j - 1)
                  dp == SubSeq(s, j + 1, Len(s))
                  digits(t) == Len(t) \in {1, 2} /\ \A i \in 1..Len(t) : IsDigit(t[i])
              IN  IF ~(digits(mp) /\ digits(dp))
                  THEN Exc("ValueError")
                  ELSE LET y == NumVal(SubSeq(s, 1, 4))
                           m == NumVal(mp)
                           d == NumVal(dp)
                       IN  IF y < 1 \/ m < 1 \/ m > 12 \/ d < 1 \/ d > monthrange(y, m)
                           THEN Exc("ValueError")
                           ELSE Date(y, m, d)

\* the fields of `data` that fail validation (run_validation of each
\* writable field; a missing field is an error unless partial)
field_errors(data, partial) ==
    {f \in WritableFields :
        IF f \notin DOMAIN data THEN ~partial
        ELSE CASE f = "name" -> data.name = <<>> \/ Len(data.name) > name_max_length
               [] f = "description" -> data.description = <<>>
               [] f = "date" -> IsExc(parse_date(data.date))
               [] OTHER -> FALSE}

\* serializer.validated_data: the writable fields sent, in internal form;
\* id, first_name and creator in the body are dropped
validated_data(data) ==
    [f \in (WritableFields \cap DOMAIN data) |->
        IF f = "date" THEN parse_date(data.date) ELSE data[f]]

\* EventSerializer(instance).data: first_name reads creator.first_name;
\* the user row has no such attribute, and a read-only field whose
\* attribute is missing is left out of the representation
to_representation(e) ==
    LET creator == CHOOSE u \in users : u.pk = e.creator
        base == [id |-> e.id, name |-> e.name, description |-> e.description,
                 date |-> isoformat(e.date), start_event |-> e.start_event,
                 end_event |-> e.end_event]
    IN  IF "first_name" \in DOMAIN creator
        THEN base @@ [first_name |-> creator.first_name]
        ELSE base

\* EventSerializer(queryset, many=True).data; the querysets are unordered,
\* so the list is kept as the set of its items
serialize_many(qs) == {to_representation(e) : e \in qs}

(***************************************************************************)
(* Event and its cascade                                                   *)
(***************************************************************************)
on_delete_DO_NOTHING(rows, user_pk) == rows

\* creator = models.ForeignKey(User, on_delete=models.CASCADE): the event
\* rows left when the user row user_pk is deleted
on_delete_CASCADE(rows, user_pk) == {e \in rows : e.creator # user_pk}

(***************************************************************************)
(* EventCreateView                                                         *)
(***************************************************************************)
perform_create_creator_from_body(serializer, user) ==
    [pkid |-> next_pkid, id |-> next_pkid,
     creator |-> IF "creator" \in DOMAIN serializer.initial_data
                    /\ \E u \in users : u.pk = serializer.initial_data.creator
                 THEN serializer.initial_data.creator
                 ELSE user.pk]
    @@ serializer.validated_data

\* serializer.save(creator=self.request.user): the row inserted; pkid and
\* id (a fresh uuid4) are generated, never taken from the body
perform_create(serializer, user) ==
    [pkid |-> next_pkid, id |-> next_pkid, creator |-> user.pk] @@ serializer.validated_data

\* POST create/: the response, the event table and whether it was touched
EventCreateView_post(credential, data) ==
    LET user == authenticate(credential) IN
    IF ~has_permission(user)
    THEN [response |-> NotAuthenticated, events |-> events, queried |-> FALSE]
    ELSE LET errors == field_errors(data, FALSE) IN
         IF errors # {}
         THEN [response |-> Response(400, [invalid |-> errors]), events |-> events,
               queried |-> FALSE]
         ELSE LET serializer == [initial_data |-> data, validated_data |-> validated_data(data)]
                  instance == perform_create(serializer, user)
              IN  [response |-> Response(201, to_representation(instance)),
                   events |-> events \cup {instance}, queried |-> TRUE]

(***************************************************************************)
(* EventRetrieveUpdateDeleteView                                           *)
(***************************************************************************)
\* Event.objects.filter(creator=self.request.user)
get_queryset(user) == {e \in events : e.creator = user.pk}

get_object_unscoped(user, id) ==
    IF \E e \in events : e.id = id
    THEN [obj |-> CHOOSE e \in events : e.id = id]
    ELSE NotFound

\* GenericAPIView.get_object: get_object_or_404 on get_queryset() by the
\* lookup field id, then check_object_permissions
get_object(user, id) ==
    LET matches == {e \in get_queryset(user) : e.id = id} IN
    IF matches = {} THEN NotFound
    ELSE LET obj == CHOOSE e \in matches : TRUE IN
         IF ~has_object_permission(user, obj) THEN PermissionDenied ELSE [obj |-> obj]

\* serializer.save() on an instance: the validated fields are assigned
perform_update(obj, validated) ==
    [f \in DOMAIN obj |-> IF f \in DOMAIN validated THEN validated[f] ELSE obj[f]]

\* GET / PUT / PATCH / DELETE <uuid:id>/
EventRetrieveUpdateDeleteView_dispatch(method, credential, id, data) ==
    LET user == authenticate(credential) IN
    IF ~has_permission(user)
    THEN [response |-> NotAuthenticated, events |-> events, queried |-> FALSE]
    ELSE LET found == get_object(user, id) IN
         IF "obj" \notin DOMAIN found
         THEN [response |-> found, events |-> events, queried |-> TRUE]
         ELSE CASE method = "GET" ->
                   [response |-> Response(200, to_representation(found.obj)),
                    events |-> events, queried |-> TRUE]
                [] method = "DELETE" ->
                   [response |-> Response(204, None),
                    events |-> events \ {found.obj}, queried |-> TRUE]
                [] OTHER ->
                   LET errors == field_errors(data, method = "PATCH") IN
                   IF errors # {}
                   THEN [response |-> Response(400, [invalid |-> errors]),
                         events |-> events, queried |-> TRUE]
                   ELSE LET instance == perform_update(found.obj, validated_data(data)) IN
                        [response |-> Response(200, to_representation(instance)),
                         events |-> (events \ {found.obj}) \cup {instance},
                         queried |-> TRUE]

(***************************************************************************)
(* BaseEventView and the day / week / month / year views                   *)
(***************************************************************************)
\* the class attribute date_range_func of WeekEventView, MonthEventView
\* and YearEventView, selected by period_name
date_range_func(period_name, date_str) ==
    CASE period_name = "week" -> get_start_and_end_of_week(date_str)
      [] period_name = "month" -> get_first_and_last_day_of_month(date_str)
      [] period_name = "year" -> get_first_and_last_day_of_year(date_str)

InvalidDateFormat == Response(400, [error |-> "Invalid date format."])

\* Event.objects.filter(date__range=[start_date, end_date])
filter_date_range(start_date, end_date) ==
    {e \in events : toordinal(start_date) <= toordinal(e.date)
                    /\ toordinal(e.date) <= toordinal(end_date)}

\* the except ValueError clause of get_event_data: only a ValueError is
\* turned into the 400 response, any other exception escapes
except_ValueError(result) ==
    IF IsExc(result) /\ result.exc = "ValueError"
    THEN [error |-> InvalidDateFormat]
    ELSE result

get_event_data_today_on_error(date_param, period_name, today) ==
    Then(date_range_func(period_name,
             IF ~IsNone(date_param) /\ ~IsExc(strptime(date_param.some))
             THEN date_param.some ELSE isoformat(today)),
         LAMBDA range :
         [events |-> filter_date_range(range.start, range.end), range |-> range])

\* BaseEventView.get_event_data: [events, range], or [error] holding the
\* 400 response, or the exception that escapes it. date_param is the
\* value of query_params.get("date"): None or Some(text).
get_event_data(date_param, period_name, today) ==
    IF ~IsNone(date_param) /\ date_param.some # <<>>
    THEN except_ValueError(
             Then(date_range_func(period_name, date_param.some), LAMBDA range :
             [events |-> filter_date_range(range.start, range.end), range |-> range]))
    ELSE Then(date_range_func(period_name, isoformat(today)), LAMBDA range :
         [events |-> filter_date_range(range.start, range.end), range |-> range])

days_count_exclusive(date_range) == toordinal(date_range.end) - toordinal(date_range.start)

\* (date_range[1] - date_range[0]).days + 1
days_count(date_range) == toordinal(date_range.end) - toordinal(date_range.start) + 1

\* f"{date_range[0]} - {date_range[1]}"
period_label(date_range) ==
    isoformat(date_range.start) \o <<" ", "-", " ">> \o isoformat(date_range.end)

\* the loop without events.filter(date=single_date): every bucket holds the
\* events of the whole range
days_data_whole_range(qs, date_range) ==
    [n \in 1..days_count(date_range) |->
        [day |-> isoformat(date_add(date_range.start, n - 1)),
         events |-> serialize_many(qs)]]

\* the loop of BaseEventView.get: one bucket per day of the range, each with
\* events.filter(date=single_date) serialized; dates are rendered as JSON
\* renders them, in ISO format
days_data(qs, date_range) ==
    [n \in 1..days_count(date_range) |->
        LET single_date == date_add(date_range.start, n - 1) IN
        [day |-> isoformat(single_date),
         events |-> serialize_many({e \in qs : e.date = single_date})]]

\* BaseEventView.get after get_event_data returned `got`: the error
\* response, or the period label and the buckets; an exception that
\* escaped is answered 500
period_response(period_name, got) ==
    IF IsExc(got) THEN [response |-> ServerError, queried |-> FALSE]
    ELSE IF "error" \in DOMAIN got THEN [response |-> got.error, queried |-> FALSE]
    ELSE [response |-> Response(200, (period_name :> period_label(got.range))
                                     @@ [days |-> days_data(got.events, got.range)]),
          queried |-> TRUE]

\* GET week/, month/, year/
BaseEventView_get(period_name, credential, date_param, today) ==
    IF ~has_permission(authenticate(credential))
    THEN [response |-> NotAuthenticated, queried |-> FALSE]
    ELSE period_response(period_name, get_event_data(date_param, period_name, today))

DayEventView_get_other_users_hidden(credential, date_param, today) ==
    LET user == authenticate(credential)
        mine == {e \in events : e.creator = user.pk}
    IN
    IF ~has_permission(user)
    THEN [response |-> NotAuthenticated, queried |-> FALSE]
    ELSE IF ~IsNone(date_param) /\ date_param.some # <<>>
    THEN LET date == strptime(date_param.some) IN
         IF IsExc(date) THEN [response |-> InvalidDateFormat, queried |-> FALSE]
         ELSE [response |-> Response(200, [day |-> date_param.some,
                   events |-> serialize_many({e \in mine : e.date = date})]),
               queried |-> TRUE]
    ELSE [response |-> Response(200, [day |-> isoformat(today),
              events |-> serialize_many({e \in mine : e.date = today})]),
          queried |-> TRUE]

\* GET day/: the day key is the text the client sent when it sent one, and
\* the server's date (rendered in ISO format) otherwise
DayEventView_get(credential, date_param, today) ==
    LET user == authenticate(credential) IN
    IF ~has_permission(user)
    THEN [response |-> NotAuthenticated, queried |-> FALSE]
    ELSE IF ~IsNone(date_param) /\ date_param.some # <<>>
    THEN LET date == strptime(date_param.some) IN
         IF IsExc(date) THEN [response |-> InvalidDateFormat, queried |-> FALSE]
         ELSE [response |-> Response(200, [day |-> date_param.some,
                   events |-> serialize_many({e \in events : e.date = date})]),
               queried |-> TRUE]
    ELSE [response |-> Response(200, [day |-> isoformat(today),
              events |-> serialize_many({e \in events : e.date = today})]),
          queried |-> TRUE]

(***************************************************************************)
(* The state machine: an operation is submitted, then performed whole;     *)
(* operations are performed one at a time                                  *)
(***************************************************************************)
Credentials == 0..MaxUsers

EventIds == 1..MaxEvents

Pending == [pending |-> TRUE]

UserOperations ==
    {[kind |-> "create_user", call |-> call] : call \in CreateUserCalls}
    \cup {[kind |-> "delete_user", user |-> pk] : pk \in 1..MaxUsers}

CrudRequests ==
    {[kind |-> "create", user |-> c, data |-> d] : c \in Credentials, d \in Bodies}
    \cup {[kind |-> k, user |-> c, id |-> id] :
            k \in {"retrieve", "delete"}, c \in Credentials, id \in EventIds}
    \cup {[kind |-> "update", method |-> m, user |-> c, id |-> id, data |-> d] :
            m \in {"PUT", "PATCH"}, c \in Credentials, id \in EventIds, d \in Bodies}

ReportRequests ==
    {[kind |-> k, user |-> c, date |-> p] :
        k \in {"day", "week", "month", "year"}, c \in Credentials, p \in DateParams}

\* the caps that keep the counters of the model bounded
Submittable(r) ==
    CASE r.kind = "create_user" -> next_user_pk <= MaxUsers
      [] r.kind = "delete_user" -> \E u \in users : u.pk = r.user
      [] r.kind = "create" -> next_pkid <= MaxEvents
      [] OTHER -> TRUE

Submit(r) ==
    /\ response # Pending
    /\ Submittable(r)
    /\ req' = r
    /\ response' = Pending
    /\ UNCHANGED <<users, events, next_pkid, next_user_pk, now, queried>>

Init ==
    /\ users = {}
    /\ events = {}
    /\ next_pkid = 1
    /\ next_user_pk = 1
    /\ req = [kind |-> "none"]
    /\ response = None
    /\ now = None
    /\ queried = FALSE

SubmitUserOperation == \E r \in UserOperations : Submit(r)

SubmitCrudRequest == \E r \in CrudRequests : Submit(r)

SubmitReportRequest == \E r \in ReportRequests : Submit(r)

SubmitCreateRequest == \E r \in {q \in CrudRequests : q.kind = "create"} : Submit(r)

InFlight(kinds) == response = Pending /\ req.kind \in kinds

CreateUser ==
    /\ InFlight({"create_user"})
    /\ LET out == create_user(req.call.email, req.call.password, req.call.extra_fields) IN
       /\ users' = IF IsExc(out) THEN users ELSE out.users
       /\ next_user_pk' = IF IsExc(out) THEN next_user_pk ELSE next_user_pk + 1
       /\ response' = IF IsExc(out) THEN out ELSE [created |-> next_user_pk]
    /\ now' = None
    /\ queried' = FALSE
    /\ UNCHANGED <<events, next_pkid, req>>

\* Model.delete() on a user row, with the cascade to its events
DeleteUser ==
    /\ InFlight({"delete_user"})
    /\ users' = {u \in users : u.pk # req.user}
    /\ events' = on_delete_CASCADE(events, req.user)
    /\ response' = None
    /\ now' = None
    /\ queried' = TRUE
    /\ UNCHANGED <<next_pkid, next_user_pk, req>>

CreateEvent ==
    /\ InFlight({"create"})
    /\ LET out == EventCreateView_post(req.user, req.data) IN
       /\ events' = out.events
       /\ response' = out.response
       /\ queried' = out.queried
       /\ next_pkid' = IF out.events = events THEN next_pkid ELSE next_pkid + 1
    /\ now' = None
    /\ UNCHANGED <<users, next_user_pk, req>>

Detail(method, data) ==
    LET out == EventRetrieveUpdateDeleteView_dispatch(method, req.user, req.id, data) IN
    /\ events' = out.events
    /\ response' = out.response
    /\ queried' = out.queried
    /\ now' = None
    /\ UNCHANGED <<users, next_pkid, next_user_pk, req>>

RetrieveEvent == InFlight({"retrieve"}) /\ Detail("GET", None)

UpdateEvent == InFlight({"update"}) /\ Detail(req.method, req.data)

DeleteEvent == InFlight({"delete"}) /\ Detail("DELETE", None)

\* the server's date enters a report only when the request gives none
UsesToday(date_param) == IsNone(date_param) \/ date_param.some = <<>>

Report(out, today) ==
    /\ response' = out.response
    /\ queried' = out.queried
    /\ now' = IF UsesToday(req.date) THEN Some(today) ELSE None
    /\ UNCHANGED <<users, events, next_pkid, next_user_pk, req>>

DayReport ==
    /\ InFlight({"day"})
    /\ \E today \in Todays : Report(DayEventView_get(req.user, req.date, today), today)

WeekReport ==
    /\ InFlight({"week"})
    /\ \E today \in Todays : Report(BaseEventView_get("week", req.user, req.date, today), today)

MonthReport ==
    /\ InFlight({"month"})
    /\ \E today \in Todays : Report(BaseEventView_get("month", req.user, req.date, today), today)

YearReport ==
    /\ InFlight({"year"})
    /\ \E today \in Todays : Report(BaseEventView_get("year", req.user, req.date, today), today)

\* users and the event CRUD endpoints
Next ==
    \/ SubmitUserOperation
    \/ SubmitCrudRequest
    \/ CreateUser
    \/ DeleteUser
    \/ CreateEvent
    \/ RetrieveEvent
    \/ UpdateEvent
    \/ DeleteEvent

Spec == Init /\ [][Next]_vars

\* users, event creation and the report endpoints
NextReports ==
    \/ SubmitUserOperation
    \/ SubmitCreateRequest
    \/ SubmitReportRequest
    \/ CreateUser
    \/ DeleteUser
    \/ CreateEvent
    \/ DayReport
    \/ WeekReport
    \/ MonthReport
    \/ YearReport

SpecReports == Init /\ [][NextReports]_vars

\* the user table and the rows that hang on it: create_user calls, event
\* creation and user deletion
NextUsers ==
    \/ SubmitUserOperation
    \/ SubmitCreateRequest
    \/ CreateUser
    \/ DeleteUser
    \/ CreateEvent

SpecUsers == Init /\ [][NextUsers]_vars

(***************************************************************************)
(* DateRangeHelper applied to date texts                                   *)
(***************************************************************************)
Years == {1, 1900, 2000, 2023, 2024, 9999}

Months == 0..13

Days == {0, 1, 15, 26, 27, 28, 29, 30, 31, 32}

\* texts in and out of the format, naming dates that exist and dates that
\* do not
DateTexts ==
    {isoformat(Date(y, m, d)) : y \in Years, m \in Months, d \in Days}
    \cup {unpadded(Date(y, m, d)) : y \in Years, m \in Months, d \in Days}
    \cup {<<>>, NotADate}

InitDates ==
    /\ users = {}
    /\ events = {}
    /\ next_pkid = 1
    /\ next_user_pk = 1
    /\ req \in {[kind |-> "date_str", date_str |-> s] : s \in DateTexts}
    /\ response = Pending
    /\ now = None
    /\ queried = FALSE

Apply(name, result) ==
    /\ req.kind = "date_str"
    /\ req' = [kind |-> name, date_str |-> req.date_str]
    /\ response' = result
    /\ UNCHANGED <<users, events, next_pkid, next_user_pk, now, queried>>

WeekRange == Apply("get_start_and_end_of_week", get_start_and_end_of_week(req.date_str))

MonthRange ==
    Apply("get_first_and_last_day_of_month", get_first_and_last_day_of_month(req.date_str))

YearRange ==
    Apply("get_first_and_last_day_of_year", get_first_and_last_day_of_year(req.date_str))

NextDates ==
    \/ WeekRange
    \/ MonthRange
    \/ YearRange

SpecDates == InitDates /\ [][NextDates]_vars

(***************************************************************************)
(* Properties of DateRangeHelper                                           *)
(***************************************************************************)
\* the date a text names, for the texts that name one
Named(date_str) == strptime(date_str)

IsRange(v) == "start" \in DOMAIN v

\* 0001-01-01, the day of ordinal 1, is a Monday
IsMonday(dt) == toordinal(dt) % 7 = 1

WeekOf(D, r) ==
    /\ IsRange(r)
    /\ IsMonday(r.start)
    /\ toordinal(r.start) <= toordinal(D)
    /\ toordinal(D) - toordinal(r.start) <= 6
    /\ toordinal(r.end) = toordinal(r.start) + 6
    /\ toordinal(D) <= toordinal(r.end)

\* the last date whose week ends within the dates that exist: 9999-12-26
LastWholeWeekSunday == Date(9999, 12, 26)

\* C6 as stated: for any valid date D, get_start_and_end_of_week returns
\* the Monday of D's week and the Sunday six days later, with D between them
C6_AsStated ==
    (req.kind = "get_start_and_end_of_week" /\ ~IsExc(Named(req.date_str)))
        => WeekOf(Named(req.date_str), response)

\* C6 amended: for any valid date D up to 9999-12-26 the result is the
\* Monday of D's week and the Sunday six days later, with D between them;
\* for the five later dates the Sunday does not exist and the call raises
\* OverflowError
C6_WeekRange ==
    (req.kind = "get_start_and_end_of_week" /\ ~IsExc(Named(req.date_str)))
        => IF toordinal(Named(req.date_str)) <= toordinal(LastWholeWeekSunday)
           THEN WeekOf(Named(req.date_str), response)
           ELSE response = Exc("OverflowError")

\* a date in the middle of its week, written without zero padding
C6_Witness ==
    /\ req.kind = "get_start_and_end_of_week"
    /\ req.date_str = unpadded(Date(2024, 2, 29))
    /\ response = [start |-> Date(2024, 2, 26), end |-> Date(2024, 3, 3)]

\* the Gregorian rule, stated on its own
LeapYear(y) == (y % 4 = 0 /\ y % 100 # 0) \/ y % 400 = 0

LastDayOfMonth(y, m) ==
    IF m = 2 THEN (IF LeapYear(y) THEN 29 ELSE 28)
    ELSE IF m \in {4, 6, 9, 11} THEN 30 ELSE 31

\* C7: for any valid date D, get_first_and_last_day_of_month returns day 1
\* of D's month and the last calendar day of that month (28 or 29 for
\* February by the Gregorian rule, 30 or 31 otherwise)
C7_MonthRange ==
    (req.kind = "get_first_and_last_day_of_month" /\ ~IsExc(Named(req.date_str)))
        => LET D == Named(req.date_str) IN
           /\ IsRange(response)
           /\ response.start = Date(D.year, D.month, 1)
           /\ response.end = Date(D.year, D.month, LastDayOfMonth(D.year, D.month))

\* February of a century year that is not a leap year
C7_Witness ==
    /\ req.kind = "get_first_and_last_day_of_month"
    /\ req.date_str = isoformat(Date(1900, 2, 15))
    /\ response = [start |-> Date(1900, 2, 1), end |-> Date(1900, 2, 28)]

(***************************************************************************)
(* Properties of the event CRUD endpoints (Spec)                           *)
(***************************************************************************)
Performed(kinds) == response # Pending /\ req.kind \in kinds

\* the step that performs the operation in flight
Performing(kinds) == InFlight(kinds) /\ response' # Pending

Authenticated(credential) == \E u \in users : u.pk = credential /\ u.is_active

EventFields ==
    {"pkid", "id", "creator", "first_name", "name", "description", "date",
     "start_event", "end_event"}

\* C1: a retrieve, update or delete request by an authenticated user for an
\* event created by someone else is answered 404 or 403, carries none of
\* the event's fields and leaves the event table as it was; and a create,
\* retrieve, update or delete request changes or removes an event only
\* when it names that event and its requester is the event's creator
C1_OwnerOnly ==
    [][ /\ Performing({"retrieve", "update", "delete"}) =>
              \A e \in events :
                  (e.id = req.id /\ e.creator # req.user /\ Authenticated(req.user)) =>
                      /\ response'.status \in {403, 404}
                      /\ DOMAIN response'.data \cap EventFields = {}
                      /\ events' = events
        /\ Performing({"create", "retrieve", "update", "delete"}) =>
              \A e \in events :
                  e \notin events' => (req.kind # "create" /\ e.id = req.id
                                       /\ e.creator = req.user)
      ]_vars

\* a PUT with a valid body for another user's event was answered not-found
C1_Witness ==
    /\ Performed({"update"})
    /\ req.method = "PUT"
    /\ field_errors(req.data, FALSE) = {}
    /\ Authenticated(req.user)
    /\ \E e \in events : e.id = req.id /\ e.creator # req.user
    /\ response = NotFound

\* C2: a successful create inserts exactly one event, whose creator is the
\* requester whatever the body says; and an update leaves the creator of
\* every event as it was
C2_CreatorFixed ==
    [][ /\ (Performing({"create"}) /\ response'.status = 201) =>
              \E e \in events' :
                  /\ e \notin events
                  /\ events' = events \cup {e}
                  /\ e.creator = req.user
        /\ Performing({"update"}) =>
              \A e \in events : \A e2 \in events' :
                  e2.id = e.id => e2.creator = e.creator
      ]_vars

\* a successful PUT whose body names another user as creator: the event
\* still belongs to the requester
C2_Witness ==
    /\ Performed({"update"})
    /\ response.status = 200
    /\ "creator" \in DOMAIN req.data
    /\ req.data.creator # req.user
    /\ \E u \in users : u.pk = req.data.creator
    /\ \E e \in events : e.id = req.id /\ e.creator = req.user
                         /\ e.name = req.data.name

\* C9: every stored event's creator is a stored user, and deleting a user
\* removes exactly the events that user created
C9_Cascade ==
    [][ /\ \A e \in events' : \E u \in users' : u.pk = e.creator
        /\ Performing({"delete_user"}) =>
              events' = {e \in events : e.creator # req.user}
      ]_vars

\* a user who had created an event was deleted while another user's event
\* is still stored
C9_Witness ==
    /\ Performed({"delete_user"})
    /\ ~ \E u \in users : u.pk = req.user
    /\ events # {}
    /\ Cardinality(events) < next_pkid - 1

SerializedFields ==
    {"id", "first_name", "name", "description", "date", "start_event", "end_event"}

\* C10 as stated: a serialized event carries id, first_name, name,
\* description, date, start_event and end_event, and first_name is the
\* first name of its creator, whatever the body sent
C10_AsStated ==
    (Performed({"create", "retrieve", "update"}) /\ response.status \in {200, 201}) =>
        /\ DOMAIN response.data = SerializedFields
        /\ \E e \in events : \E u \in users :
               /\ e.id = response.data.id
               /\ u.pk = e.creator
               /\ response.data.first_name = u.first_name

(***************************************************************************)
(* Properties of the user manager (SpecUsers)                              *)
(***************************************************************************)
\* the e-mail argument of a create_user call is empty or missing
NoEmail(call) == IsNone(call.email) \/ call.email.some = <<>>

\* C11: a create_user call whose e-mail is empty or missing raises
\* ValueError and creates or saves no user: the user table after the call
\* is the user table before it, and no primary key is consumed
C11_NoEmailNoUser ==
    [][ (Performing({"create_user"}) /\ NoEmail(req.call)) =>
            /\ response' = Exc("ValueError")
            /\ users' = users
            /\ next_user_pk' = next_user_pk
      ]_vars

\* a create_user call without e-mail was refused while a user is stored,
\* and no stored user has an empty e-mail
C11_Witness ==
    /\ Performed({"create_user"})
    /\ NoEmail(req.call)
    /\ response = Exc("ValueError")
    /\ users # {}
    /\ \A u \in users : u.email # <<>>

(***************************************************************************)
(* Properties of the report endpoints (SpecReports)                        *)
(***************************************************************************)
PeriodKinds == {"week", "month", "year"}

ReportKinds == {"day"} \cup PeriodKinds

\* the server's date the performed report read; a report that read none
\* does not depend on it
TodayRead == IF IsNone(now) THEN CHOOSE t \in Todays : TRUE ELSE now.some

\* what the view of the performed report answers to another requester
AnswerTo(credential) ==
    IF req.kind = "day"
    THEN DayEventView_get(credential, req.date, TodayRead).response
    ELSE BaseEventView_get(req.kind, credential, req.date, TodayRead).response

\* C3: the answer to a report request is the same for every authenticated
\* requester: it is a function of the stored events, the date parameter
\* and the server's date only
C3_SameForAll ==
    (Performed(ReportKinds) /\ Authenticated(req.user)) =>
        \A c \in Credentials : Authenticated(c) => AnswerTo(c) = response

BucketsOf(data) ==
    IF "days" \in DOMAIN data
    THEN {data.days[i].events : i \in 1..Len(data.days)}
    ELSE {data.events}

\* a report shows its requester an event created by another user
C3_Witness ==
    /\ Performed(ReportKinds)
    /\ Authenticated(req.user)
    /\ response.status = 200
    /\ \E c \in Credentials : c # req.user /\ Authenticated(c)
    /\ \E e \in events :
           /\ e.creator # req.user
           /\ \E b \in BucketsOf(response.data) : to_representation(e) \in b

\* the text of the date parameter does not parse under %Y-%m-%d
Unparsable(date_param) ==
    ~IsNone(date_param) /\ strptime(date_param.some) = Exc("ValueError")

RejectedDate ==
    /\ response = Response(400, [error |-> "Invalid date format."])
    /\ queried = FALSE

\* what the view of the performed report answers when no date is sent
AnswerToAbsentDate ==
    IF req.kind = "day"
    THEN DayEventView_get(req.user, None, TodayRead).response
    ELSE BaseEventView_get(req.kind, req.user, None, TodayRead).response

\* C4 as stated: whenever the date parameter is a text that does not parse,
\* the answer is 400 with the fixed body, and the event table is not read
C4_AsStated ==
    (Performed(ReportKinds) /\ Authenticated(req.user) /\ Unparsable(req.date))
        => RejectedDate

\* C4 amended: whenever the date parameter is a non-empty text that does
\* not parse, the answer is 400 with the fixed body and nothing else, and
\* the event table is not read; an empty date parameter is treated as no
\* date parameter and answered with the report for the server's date
C4_BadDate ==
    (Performed(ReportKinds) /\ Authenticated(req.user) /\ Unparsable(req.date))
        => IF req.date.some # <<>>
           THEN RejectedDate
           ELSE response = AnswerToAbsentDate

\* a malformed date sent to a period endpoint while events are stored
C4_Witness ==
    /\ Performed({"month"})
    /\ Authenticated(req.user)
    /\ req.date = Some(NotADate)
    /\ events # {}
    /\ response = InvalidDateFormat
    /\ ~queried

\* the range a performed period report resolved: that of the date sent,
\* or of the server's date
ResolvedRange ==
    date_range_func(req.kind,
                    IF UsesToday(req.date) THEN isoformat(TodayRead) ELSE req.date.some)

\* C5: a successful week, month or year report has one bucket per day of
\* its range [start, end]: (end - start) in days plus 1 buckets, the i-th
\* for the day start + (i - 1), so strictly increasing without gaps or
\* repeats, and a day without events has a bucket with no events
C5_Buckets ==
    (Performed(PeriodKinds) /\ response.status = 200) =>
        LET days == response.data.days
            start == toordinal(ResolvedRange.start)
            end == toordinal(ResolvedRange.end)
        IN  /\ Len(days) = end - start + 1
            /\ \A i \in 1..Len(days) :
                   /\ days[i].day = isoformat(fromordinal(start + i - 1))
                   /\ (~ \E e \in events : toordinal(e.date) = start + i - 1)
                          => days[i].events = {}
            /\ \A i, j \in 1..Len(days) : i < j => days[i].day # days[j].day

\* a leap year's report: 366 buckets, some with events and some without
C5_Witness ==
    /\ Performed({"year"})
    /\ response.status = 200
    /\ Len(response.data.days) = 366
    /\ \E i \in 1..366 : response.data.days[i].events # {}
    /\ \E i \in 1..366 : response.data.days[i].events = {}

\* the date of a stored event lies in the resolved range [start, end]
InResolvedRange(e) ==
    /\ toordinal(ResolvedRange.start) <= toordinal(e.date)
    /\ toordinal(e.date) <= toordinal(ResolvedRange.end)

\* the positions of the buckets of the performed report that hold event e
BucketsHolding(e) ==
    {i \in 1..Len(response.data.days) :
        to_representation(e) \in response.data.days[i].events}

\* C12: in a successful week, month or year report the buckets partition
\* the stored events of the range: a stored event whose date lies in
\* [start, end] is in exactly one bucket, the one whose day is the event's
\* date; a stored event whose date lies outside [start, end] is in no
\* bucket; and every item of a bucket is a stored event
C12_Partition ==
    (Performed(PeriodKinds) /\ response.status = 200) =>
        /\ \A e \in events :
               IF InResolvedRange(e)
               THEN /\ Cardinality(BucketsHolding(e)) = 1
                    /\ \A i \in BucketsHolding(e) :
                           response.data.days[i].day = isoformat(e.date)
               ELSE BucketsHolding(e) = {}
        /\ \A i \in 1..Len(response.data.days) :
               response.data.days[i].events \subseteq serialize_many(events)

\* a month report while one stored event lies in the month, in its day's
\* bucket, and another stored event lies outside the month
C12_Witness ==
    /\ Performed({"month"})
    /\ response.status = 200
    /\ \E e \in events : InResolvedRange(e) /\ BucketsHolding(e) # {}
    /\ \E e \in events : ~InResolvedRange(e)

\* the one date a day request resolves
ResolvedDay == IF UsesToday(req.date) THEN TodayRead ELSE strptime(req.date.some)

\* C8 as stated: a successful day report is {day, events} where day is the
\* resolved date (as the API renders dates) and events are exactly the
\* stored events of that date
C8_AsStated ==
    (Performed({"day"}) /\ response.status = 200) =>
        /\ DOMAIN response.data = {"day", "events"}
        /\ response.data.day = isoformat(ResolvedDay)
        /\ response.data.events = {to_representation(e) : e \in {x \in events : x.date = ResolvedDay}}

====
